---- MODULE Spec2Model ----
(***************************************************************************)
(* Model of cloud/amazon/elb_application_lb_facts.py: one run of main()    *)
(* (region check, client construction, list_elbs) against a provider whose *)
(* state (load balancers, their listeners, and the request it rejects) is  *)
(* fixed for the behaviour, followed by at most one repeated list_elbs().  *)
(***************************************************************************)
EXTENDS Integers, Sequences, FiniteSets, TLC

\* ----- bounds of the model ------------------------------------------------
\* load balancers the provider reports
MaxLBs == 2
\* listeners attached in the whole region
MaxListeners == 2

\* ----- the provider's data ------------------------------------------------
LBNames == {"fe", "FE", "be"}
ListenerKinds == {"plain", "tls", "nocert"}
Regions == {"", "us-east-1"}
ErrorClasses == {"BotoServerError", "ClientError"}

NoDupSeqs(S, n) ==
  UNION {{s \in [1..k -> S] : \A a, b \in 1..k : a # b => s[a] # s[b]} : k \in 0..n}

RECURSIVE SumLen(_)
SumLen(p) == IF p = <<>> THEN 0 ELSE Len(Head(p).kinds) + SumLen(Tail(p))

\* a provider state: the load balancers in the order the API reports them,
\* each with the kinds of its listeners in the order the API reports them
Providers ==
  {p \in UNION {[1..k -> [name : LBNames, kinds : NoDupSeqs(ListenerKinds, MaxListeners)]]
                  : k \in 0..MaxLBs} :
      /\ \A a, b \in 1..Len(p) : a # b => p[a].name # p[b].name
      /\ SumLen(p) <= MaxListeners}

LBArn(n) == "arn:lb/" \o n
ListenerArn(n, k) == "arn:listener/" \o n \o "/" \o k

\* the element of describe_load_balancers()['LoadBalancers'] for name n
LoadBalancer(n) ==
  [LoadBalancerArn |-> LBArn(n),
   LoadBalancerName |-> n,
   DNSName |-> n \o ".elb.amazonaws.com",
   SecurityGroups |-> <<"sg-1">>,
   State |-> [Code |-> "active"],
   AvailabilityZones |-> <<[SubnetId |-> "subnet-1", ZoneName |-> "az-a"],
                           [SubnetId |-> "subnet-2", ZoneName |-> "az-b"]>>]

\* the element of describe_listeners()['Listeners'] for listener k of n:
\* a plain listener has no 'Certificates' key, "nocert" has an empty list,
\* "tls" has two certificates
Listener(n, k) ==
  LET base == [ListenerArn |-> ListenerArn(n, k),
               Port |-> IF k = "plain" THEN 80 ELSE IF k = "tls" THEN 443 ELSE 8443,
               Protocol |-> IF k = "plain" THEN "HTTP" ELSE "HTTPS",
               DefaultActions |-> <<[Type |-> "forward", TargetGroupArn |-> "arn:tg/" \o k]>>]
  IN  IF k = "plain" THEN base
      ELSE IF k = "nocert" THEN base @@ ("Certificates" :> <<>>)
      ELSE base @@ ("Certificates" :> <<[CertificateArn |-> "arn:cert/b"],
                                        [CertificateArn |-> "arn:cert/a"]>>)

VARIABLES
  provider,       \* the provider's load balancers and listeners
  fault,          \* the request the provider rejects, and the exception it raises
  names,          \* module.params['names']
  pc,             \* position in main() / list_elbs()
  region,         \* main(): region of get_aws_connection_info(module)
  conn_region,    \* _get_elb_connection: region of get_aws_connection_info(module, boto3=True)
  elbv2,          \* self.elbv2 (and self.ec2): TRUE once the clients are constructed
  elb_array,      \* list_elbs: elb_array
  i,              \* list_elbs: position of map() in elb_array
  mapped,         \* list_elbs: the records map() has produced so far
  listener_arns,  \* _get_listeners: listener_arns
  j,              \* _get_listeners: position of the loop over listener_arns
  listener_list,  \* _get_listeners: listener_list
  listener_dict,  \* _get_listeners: listener_dict (<<>> while unbound)
  calls,          \* the provider requests issued in this run, in order
  outcome,        \* how the run ended
  run,            \* 1 for the first list_elbs(), 2 for the repeated one
  prev            \* the outcome of the first run

vars == <<provider, fault, names, pc, region, conn_region, elbv2, elb_array, i, mapped,
          listener_arns, j, listener_list, listener_dict, calls, outcome, run, prev>>

\* ----- the provider's API --------------------------------------------------
Call(op, arg) == [op |-> op, arg |-> arg]
NoFault == [op |-> "none", arg |-> "-", cls |-> "-"]

\* the requests a run over every load balancer of p would issue
Requests(p) ==
  {Call("describe_load_balancers", "-")}
    \cup {Call("describe_listeners:LoadBalancerArn", LBArn(p[a].name)) : a \in 1..Len(p)}
    \cup UNION {{Call("describe_listeners:ListenerArns", ListenerArn(p[a].name, p[a].kinds[b]))
                   : b \in 1..Len(p[a].kinds)} : a \in 1..Len(p)}

Faults(p) ==
  {NoFault} \cup {[op |-> c.op, arg |-> c.arg, cls |-> e] : c \in Requests(p), e \in ErrorClasses}

Rejected(c) == fault.op = c.op /\ fault.arg = c.arg

\* err.error_code and err.error_message of the exception the provider raises
ErrorCode(c) ==
  IF c.op = "describe_load_balancers" THEN "AccessDenied"
  ELSE IF c.op = "describe_listeners:LoadBalancerArn" THEN "LoadBalancerNotFound"
  ELSE "ListenerNotFound"
ErrorMessage(c) == "rejected " \o c.arg

RECURSIVE MapLoadBalancers(_)
MapLoadBalancers(p) ==
  IF p = <<>> THEN <<>> ELSE <<LoadBalancer(Head(p).name)>> \o MapLoadBalancers(Tail(p))

\* elbv2.describe_load_balancers(): a dict with the list and the response metadata
DescribeLoadBalancers ==
  [LoadBalancers |-> MapLoadBalancers(provider),
   ResponseMetadata |-> [HTTPStatusCode |-> 200]]

RECURSIVE MapListeners(_, _)
MapListeners(n, ks) ==
  IF ks = <<>> THEN <<>> ELSE <<Listener(n, Head(ks))>> \o MapListeners(n, Tail(ks))

RECURSIVE AllListeners(_)
AllListeners(p) ==
  IF p = <<>> THEN <<>> ELSE MapListeners(Head(p).name, Head(p).kinds) \o AllListeners(Tail(p))

\* elbv2.describe_listeners(LoadBalancerArn=arn)['Listeners']
ListenersOfLB(arn) ==
  LET RECURSIVE Find(_)
      Find(p) == IF p = <<>> THEN <<>>
                 ELSE IF LBArn(Head(p).name) = arn
                      THEN MapListeners(Head(p).name, Head(p).kinds)
                      ELSE Find(Tail(p))
  IN  Find(provider)

\* elbv2.describe_listeners(ListenerArns=[arn])['Listeners']
ListenersByArn(arn) ==
  LET Is(l) == l.ListenerArn = arn IN SelectSeq(AllListeners(provider), Is)

\* ----- the module's pure parts --------------------------------------------
None == "None"
Unbound == [UnboundLocalError |-> TRUE]
EmptyList == [type |-> "list", items |-> <<>>]

\* truth value of a dict: it has a key
Truthy(d) == DOMAIN d # {}

\* iterating a dict yields its keys, in the dict's own order
DictKeys(d) ==
  CHOOSE s \in [1..Cardinality(DOMAIN d) -> DOMAIN d] : \A k \in DOMAIN d : \E a \in DOMAIN s : s[a] = k

Lower(n) == IF n = "FE" THEN "fe" ELSE n
\* a match that ignores case
NameMatchesAnyCase(n, ns) == Lower(n) \in {Lower(m) : m \in ns}

\* existing_lb['LoadBalancerName'] in self.names
NameMatches(n, ns) == n \in ns

\* the loop of list_elbs over all_elbs['LoadBalancers'], appending to elb_array
RECURSIVE RetainNamed(_, _, _)
RetainNamed(acc, lbs, ns) ==
  IF lbs = <<>> THEN acc
  ELSE RetainNamed(IF NameMatches(Head(lbs).LoadBalancerName, ns) THEN Append(acc, Head(lbs)) ELSE acc,
                   Tail(lbs), ns)

\* list_elbs between the provider's answer and map(): elb_array
SelectElbs(old, all_elbs, ns) ==
  IF Truthy(all_elbs)
  THEN IF ns # {}
       THEN [type |-> "list", items |-> RetainNamed(old.items, all_elbs.LoadBalancers, ns)]
       ELSE [type |-> "dict", items |-> DictKeys(all_elbs)]
  ELSE old

RECURSIVE GetZoneInfo(_)
GetZoneInfo(zones) ==
  IF zones = <<>> THEN <<>>
  ELSE <<[subnetid |-> Head(zones).SubnetId, zonename |-> Head(zones).ZoneName]>>
         \o GetZoneInfo(Tail(zones))

\* the last certificate of the list instead of the first
CertificateArnLast(listener) ==
  IF "Certificates" \notin DOMAIN listener THEN <<>>
  ELSE IF Len(listener.Certificates) < 1 THEN <<>>
  ELSE <<listener.Certificates[Len(listener.Certificates)].CertificateArn>>

\* listener['Certificates'][0]['CertificateArn'], <<>> on KeyError, IndexError
\* or a false value
CertificateArn(listener) ==
  IF "Certificates" \notin DOMAIN listener THEN <<>>
  ELSE IF Len(listener.Certificates) < 1 THEN <<>>
  ELSE IF listener.Certificates[1].CertificateArn = "" THEN <<>>
  ELSE <<listener.Certificates[1].CertificateArn>>

\* listener_dict of one listener of the detail response
ListenerDict(listener) ==
  LET d == [listener_arn |-> listener.ListenerArn,
            port |-> listener.Port,
            protocol |-> listener.Protocol,
            default_actions |-> listener.DefaultActions]
      c == CertificateArn(listener)
  IN  IF c = <<>> THEN d ELSE d @@ ("certificate_arn" :> c[1])

\* the inner loop of _get_listeners: listener_dict after the loop over
\* listener_data['Listeners'] is the last one built, or the old one
RECURSIVE LastListenerDict(_, _)
LastListenerDict(old, listeners) ==
  IF listeners = <<>> THEN old
  ELSE LastListenerDict(ListenerDict(Head(listeners)), Tail(listeners))

\* the first loop of _get_listeners starting at the second listener
ListenerArnsSkipFirst(listeners) ==
  IF listeners = <<>> THEN <<>>
  ELSE [b \in 1..(Len(listeners) - 1) |-> listeners[b + 1].ListenerArn]

RECURSIVE ListenerArns(_)
ListenerArns(listeners) ==
  IF listeners = <<>> THEN <<>> ELSE <<Head(listeners).ListenerArn>> \o ListenerArns(Tail(listeners))

\* elb_info with 'listeners' set only when there are listeners
ElbInfoListenersIfAny(elb, listeners) ==
  LET d == [load_balancer_arn |-> elb.LoadBalancerArn,
            name |-> elb.LoadBalancerName,
            dns_name |-> elb.DNSName,
            security_groups |-> elb.SecurityGroups,
            state |-> elb.State.Code]
  IN  IF listeners = <<>> THEN d ELSE d @@ ("listeners" :> listeners)

\* elb_info of _get_elb_info, given what _get_listeners returned
ElbInfo(elb, listeners) ==
  [load_balancer_arn |-> elb.LoadBalancerArn,
   zones |-> GetZoneInfo(elb.AvailabilityZones),
   name |-> elb.LoadBalancerName,
   dns_name |-> elb.DNSName,
   security_groups |-> elb.SecurityGroups,
   state |-> elb.State.Code,
   listeners |-> listeners]

\* module.fail_json(msg=...): the run ends with a reported failure
FailJson(msg) == [kind |-> "fail_json", msg |-> msg]
\* an exception nothing catches: the run ends with a traceback
Uncaught(type) == [kind |-> "exception", type |-> type]
\* module.exit_json(changed=False, elbs=...)
ExitJsonResult(elbs) == [kind |-> "exit_json", changed |-> FALSE, elbs |-> elbs]

\* "%s: %s" % (err.error_code, err.error_message)
ProviderErrorMsg(c) == ErrorCode(c) \o ": " \o ErrorMessage(c)

\* a provider request that raised: only BotoServerError is caught
Raised(c) ==
  IF fault.cls = "BotoServerError" THEN FailJson(ProviderErrorMsg(c)) ELSE Uncaught(fault.cls)

\* no check of the region
RegionNeverMissing(r) == FALSE

\* if not region
RegionMissing(r) == r = ""

\* ----- the run -------------------------------------------------------------
Init ==
  /\ provider \in Providers
  /\ fault \in Faults(provider)
  /\ names \in SUBSET LBNames
  /\ pc = "main"
  /\ region = None
  /\ conn_region = None
  /\ elbv2 = FALSE
  /\ elb_array = EmptyList
  /\ i = 1
  /\ mapped = <<>>
  /\ listener_arns = <<>>
  /\ j = 1
  /\ listener_list = <<>>
  /\ listener_dict = Unbound
  /\ calls = <<>>
  /\ outcome = [kind |-> None]
  /\ run = 1
  /\ prev = [kind |-> None]

Inputs == <<provider, fault, names>>
Locals == <<elb_array, i, mapped, listener_arns, j, listener_list, listener_dict>>

End(o) == pc' = "done" /\ outcome' = o

\* main() up to the construction of ElbInformation
Main ==
  /\ pc = "main"
  /\ \E has_boto \in BOOLEAN, r \in Regions :
       IF ~has_boto
       THEN End(FailJson("boto required for this module")) /\ region' = region
       ELSE /\ region' = r
            /\ IF RegionMissing(r)
               THEN End(FailJson("region must be specified"))
               ELSE pc' = "connect" /\ outcome' = outcome
  /\ UNCHANGED <<Inputs, Locals, conn_region, elbv2, calls, run, prev>>

\* ElbInformation.__init__ and _get_elb_connection
Connect ==
  /\ pc = "connect"
  /\ \E r \in Regions, connected \in BOOLEAN :
       /\ conn_region' = r
       /\ IF RegionMissing(r)
          THEN End(FailJson("Region must be specified as a parameter, in EC2_REGION or AWS_REGION environment variables or in boto configuration file"))
                 /\ elbv2' = elbv2
          ELSE IF ~connected
          THEN End(FailJson("ClientError.message")) /\ elbv2' = elbv2
          ELSE elbv2' = TRUE /\ pc' = "list_elbs" /\ outcome' = outcome
  /\ UNCHANGED <<Inputs, Locals, region, calls, run, prev>>

\* list_elbs up to map()
ListElbs ==
  /\ pc = "list_elbs"
  /\ LET c == Call("describe_load_balancers", "-") IN
       /\ calls' = Append(calls, c)
       /\ IF Rejected(c)
          THEN End(Raised(c)) /\ UNCHANGED <<elb_array, i, mapped>>
          ELSE /\ elb_array' = SelectElbs(elb_array, DescribeLoadBalancers, names)
               /\ i' = 1
               /\ mapped' = <<>>
               /\ pc' = "get_elb_info"
               /\ outcome' = outcome
  /\ UNCHANGED <<Inputs, region, conn_region, elbv2, listener_arns, j, listener_list,
                 listener_dict, run, prev>>

\* map() calls _get_elb_info on the next element: the dict literal up to the
\* call of _get_listeners, and _get_listeners up to its second loop
GetElbInfo ==
  /\ pc = "get_elb_info"
  /\ i <= Len(elb_array.items)
  /\ IF elb_array.type = "dict"
     THEN \* elb is a key, a str: elb['LoadBalancerArn'] raises TypeError
          /\ End(Uncaught("TypeError"))
          /\ UNCHANGED <<calls, listener_arns, j, listener_list, listener_dict>>
     ELSE LET c == Call("describe_listeners:LoadBalancerArn", elb_array.items[i].LoadBalancerArn) IN
          /\ calls' = Append(calls, c)
          /\ IF Rejected(c)
             THEN End(Raised(c)) /\ UNCHANGED <<listener_arns, j, listener_list, listener_dict>>
             ELSE /\ listener_arns' = ListenerArns(ListenersOfLB(c.arg))
                  /\ j' = 1
                  /\ listener_list' = <<>>
                  /\ listener_dict' = Unbound
                  /\ pc' = "get_listeners"
                  /\ outcome' = outcome
  /\ UNCHANGED <<Inputs, region, conn_region, elbv2, elb_array, i, mapped, run, prev>>

\* _get_listeners: one round of the loop over listener_arns
ListenerDetail ==
  /\ pc = "get_listeners"
  /\ j <= Len(listener_arns)
  /\ LET c == Call("describe_listeners:ListenerArns", listener_arns[j]) IN
       /\ calls' = Append(calls, c)
       /\ IF Rejected(c)
          THEN End(Raised(c)) /\ UNCHANGED <<j, listener_list, listener_dict>>
          ELSE LET d == LastListenerDict(listener_dict, ListenersByArn(c.arg)) IN
               IF d = Unbound
               THEN End(Uncaught("UnboundLocalError")) /\ UNCHANGED <<j, listener_list, listener_dict>>
               ELSE /\ listener_dict' = d
                    /\ listener_list' = Append(listener_list, d)
                    /\ j' = j + 1
                    /\ UNCHANGED <<pc, outcome>>
  /\ UNCHANGED <<Inputs, region, conn_region, elbv2, elb_array, i, mapped, listener_arns,
                 run, prev>>

\* _get_listeners returns, _get_elb_info returns elb_info to map()
ReturnElbInfo ==
  /\ pc = "get_listeners"
  /\ j > Len(listener_arns)
  /\ mapped' = Append(mapped, ElbInfo(elb_array.items[i], listener_list))
  /\ i' = i + 1
  /\ pc' = "get_elb_info"
  /\ UNCHANGED <<Inputs, region, conn_region, elbv2, elb_array, listener_arns, j,
                 listener_list, listener_dict, calls, outcome, run, prev>>

\* list_elbs returns, main() exits with the result
ExitJson ==
  /\ pc = "get_elb_info"
  /\ i > Len(elb_array.items)
  /\ End(ExitJsonResult(mapped))
  /\ UNCHANGED <<Inputs, Locals, region, conn_region, elbv2, calls, run, prev>>

\* list_elbs() entered once more with elb_array kept from the run before
RerunStale ==
  /\ pc = "done"
  /\ elbv2
  /\ run = 1
  /\ run' = 2
  /\ prev' = outcome
  /\ outcome' = [kind |-> None]
  /\ calls' = <<>>
  /\ pc' = "list_elbs"
  /\ UNCHANGED <<Inputs, Locals, region, conn_region, elbv2>>

\* list_elbs() is entered once more, the provider as it was
Rerun ==
  /\ pc = "done"
  /\ elbv2
  /\ run = 1
  /\ run' = 2
  /\ prev' = outcome
  /\ outcome' = [kind |-> None]
  /\ calls' = <<>>
  /\ elb_array' = EmptyList
  /\ pc' = "list_elbs"
  /\ UNCHANGED <<Inputs, region, conn_region, elbv2, i, mapped, listener_arns, j,
                 listener_list, listener_dict>>

Run ==
  \/ Main
  \/ Connect
  \/ ListElbs
  \/ GetElbInfo
  \/ ListenerDetail
  \/ ReturnElbInfo
  \/ ExitJson

\* one run of the module
Next == Run
Spec == Init /\ [][Next]_vars

\* one run of the module and list_elbs() once more
NextTwice ==
  \/ Run
  \/ Rerun
SpecTwice == Init /\ [][NextTwice]_vars

\* ----- what the provider holds, read off the provider state ----------------
ProviderNames == [a \in 1..Len(provider) |-> provider[a].name]
KindsOf(n) == LET a == CHOOSE a \in 1..Len(provider) : provider[a].name = n IN provider[a].kinds
InFilter(n) == n \in names
RecordNames(elbs) == [a \in 1..Len(elbs) |-> elbs[a].name]
ListCall == [op |-> "describe_load_balancers", arg |-> "-"]
EnumCall(n) == [op |-> "describe_listeners:LoadBalancerArn", arg |-> "arn:lb/" \o n]
DetailCall(n, k) == [op |-> "describe_listeners:ListenerArns", arg |-> "arn:listener/" \o n \o "/" \o k]
Done == pc = "done" /\ elbv2
RejectedAt(k) == calls[k].op = fault.op /\ calls[k].arg = fault.arg

RECURSIVE ExpectedListenerCalls(_, _)
ExpectedListenerCalls(p, ns) ==
  IF p = <<>> THEN <<>>
  ELSE (IF ns = {} \/ Head(p).name \in ns
        THEN <<EnumCall(Head(p).name)>>
               \o [b \in 1..Len(Head(p).kinds) |-> DetailCall(Head(p).name, Head(p).kinds[b])]
        ELSE <<>>)
         \o ExpectedListenerCalls(Tail(p), ns)

\* C1: with an empty name filter and no provider failure the run returns one
\* record per load balancer the provider reports, in the provider's order
C1_NoFilterReturnsAll ==
  (Done /\ names = {} /\ fault = NoFault)
    => (outcome.kind = "exit_json" /\ RecordNames(outcome.elbs) = ProviderNames)

\* C2: with a non-empty name filter the result holds exactly the load
\* balancers whose name is a member of the filter, in the provider's order;
\* names that match nothing are ignored and the run ends with a result
C2_FilterExact ==
  (Done /\ names # {})
    => /\ outcome.kind = "exit_json" => RecordNames(outcome.elbs) = SelectSeq(ProviderNames, InFilter)
       /\ fault = NoFault => outcome.kind = "exit_json"

C2_Witness ==
  /\ Done /\ outcome.kind = "exit_json"
  /\ names = {"FE", "be"}
  /\ ProviderNames = <<"fe", "FE">>
  /\ RecordNames(outcome.elbs) = <<"FE">>

\* C3: when the list call fails, no listener call is issued and the run ends
\* in a reported error built from the provider's error code and message
C3_ListFailureReported ==
  (Done /\ fault.op = "describe_load_balancers")
    => /\ calls = <<ListCall>>
       /\ outcome.kind = "fail_json" /\ outcome.msg = "AccessDenied: rejected -"

\* C4: after a failed provider call no further call is issued, the call is
\* not repeated, and the run ends in a reported error, never in a result
C4_FailFast ==
  \A k \in 1..Len(calls) :
    RejectedAt(k) => (k = Len(calls) /\ pc = "done" /\ outcome.kind = "fail_json")

\* C10: in a run in which no provider call fails, one enumeration call is
\* issued per retained load balancer, in provider order, each followed by one
\* detail call per listener in enumeration order, and by no other call
C10_CallProtocol ==
  (Done /\ fault = NoFault) => calls = <<ListCall>> \o ExpectedListenerCalls(provider, names)

\* every listener record built so far in this run
ListenerRecords ==
  {listener_list[b] : b \in 1..Len(listener_list)}
    \cup UNION {{mapped[a].listeners[b] : b \in 1..Len(mapped[a].listeners)} : a \in 1..Len(mapped)}

\* the provider's listener with the given ARN
ProviderListener(arn) ==
  LET nk == CHOOSE nk \in LBNames \X ListenerKinds :
              "arn:listener/" \o nk[1] \o "/" \o nk[2] = arn
  IN  Listener(nk[1], nk[2])

HasCertificates(l) == "Certificates" \in DOMAIN l /\ l.Certificates # <<>>

\* C5: a listener record has no 'certificate_arn' key when the listener's
\* detail has no certificate list or an empty one, and otherwise carries the
\* ARN of the first certificate of the list
C5_CertificateArn ==
  \A r \in ListenerRecords :
    LET l == ProviderListener(r.listener_arn) IN
      IF HasCertificates(l)
      THEN "certificate_arn" \in DOMAIN r /\ r.certificate_arn = Head(l.Certificates).CertificateArn
      ELSE "certificate_arn" \notin DOMAIN r

C5_Witness ==
  /\ Done /\ outcome.kind = "exit_json"
  /\ \E r \in ListenerRecords :
       /\ "certificate_arn" \in DOMAIN r
       /\ r.certificate_arn = "arn:cert/b"
       /\ Len(ProviderListener(r.listener_arn).Certificates) = 2
  /\ \E r \in ListenerRecords :
       /\ "certificate_arn" \notin DOMAIN r
       /\ "Certificates" \in DOMAIN ProviderListener(r.listener_arn)

\* C6: in a returned result the 'listeners' of every load balancer record
\* are the listeners the provider reports for that load balancer, one record
\* each in the same order, with the listener's arn, port, protocol and
\* default actions
C6_ListenersOneToOne ==
  outcome.kind = "exit_json" =>
    \A a \in 1..Len(outcome.elbs) :
      LET rec == outcome.elbs[a]
          ks == KindsOf(rec.name)
      IN  /\ Len(rec.listeners) = Len(ks)
          /\ \A b \in 1..Len(ks) :
               LET l == Listener(rec.name, ks[b])
                   r == rec.listeners[b]
               IN  /\ r.listener_arn = l.ListenerArn
                   /\ r.port = l.Port
                   /\ r.protocol = l.Protocol
                   /\ r.default_actions = l.DefaultActions

C6_Witness ==
  /\ outcome.kind = "exit_json"
  /\ \E a \in 1..Len(outcome.elbs) :
       /\ Len(outcome.elbs[a].listeners) = 2
       /\ outcome.elbs[a].listeners[1].port = 8443
       /\ outcome.elbs[a].listeners[2].port = 80

NoListeners(n) == \E a \in 1..Len(provider) : provider[a].name = n /\ provider[a].kinds = <<>>

\* C7: a load balancer whose enumeration returns no listeners gets a record
\* with 'listeners' bound to the empty sequence; no detail call follows its
\* enumeration call and the run goes on to its result
C7_ZeroListeners ==
  /\ \A a \in 1..Len(mapped) :
       NoListeners(mapped[a].name)
         => ("listeners" \in DOMAIN mapped[a] /\ mapped[a].listeners = <<>>)
  /\ \A k \in 1..Len(calls), n \in LBNames :
       (calls[k] = EnumCall(n) /\ NoListeners(n) /\ ~RejectedAt(k))
         => /\ k < Len(calls) => calls[k + 1].op # "describe_listeners:ListenerArns"
            /\ pc # "get_listeners" => \E a \in 1..Len(mapped) : mapped[a].name = n
            /\ (k = Len(calls) /\ pc = "done") => outcome.kind = "exit_json"

C7_Witness ==
  /\ Done /\ outcome.kind = "exit_json"
  /\ Len(outcome.elbs) = 2
  /\ outcome.elbs[1].listeners = <<>>
  /\ Len(outcome.elbs[2].listeners) = 2
  /\ Len(calls) = 5

\* C8: when a region is not resolved the run ends at once in a reported
\* configuration error, with no client constructed and no provider request
\* issued; a client or a request implies both region checks have passed
C8_RegionBeforeNetwork ==
  /\ (region = "" \/ conn_region = "")
       => /\ ~elbv2
          /\ calls = <<>>
          /\ pc = "done"
          /\ outcome.kind = "fail_json"
          /\ outcome.msg = IF region = "" THEN "region must be specified"
                           ELSE "Region must be specified as a parameter, in EC2_REGION or AWS_REGION environment variables or in boto configuration file"
  /\ (elbv2 \/ calls # <<>>) => (region = "us-east-1" /\ conn_region = "us-east-1")

C8_Witness ==
  /\ region = ""
  /\ pc = "done"
  /\ outcome = [kind |-> "fail_json", msg |-> "region must be specified"]
  /\ calls = <<>>

\* the second run ended as the first, a result has 'changed' false, and every
\* request issued is a describe request
C9_TwiceTheSame ==
  /\ (run = 2 /\ pc = "done") => outcome = prev
  /\ outcome.kind = "exit_json" => outcome.changed = FALSE
  /\ \A k \in 1..Len(calls) :
       calls[k].op \in {"describe_load_balancers", "describe_listeners:LoadBalancerArn",
                        "describe_listeners:ListenerArns"}

\* C9: list_elbs() run a second time against the unchanged provider ends as
\* the first run did (the same records or the same error); a result has
\* 'changed' false, every request issued is a describe request, and no step
\* changes the provider
C9_Idempotent == [](C9_TwiceTheSame) /\ [][provider' = provider /\ fault' = fault]_vars

C9_Witness ==
  /\ run = 2 /\ pc = "done"
  /\ outcome.kind = "exit_json"
  /\ Len(outcome.elbs) = 2
  /\ Len(calls) = 5

====
